---- MODULE Spec2Model ----
(***************************************************************************)
(* Model of main.py of the CFB Data Intelligence API: the embedded input   *)
(* validator (validate_input), the deterministic spread model              *)
(* (run_cfb_model_v2) and the POST /cfb/run_model handler (cfb_run_model). *)
(*                                                                         *)
(* Numbers.  Python floats are modelled as exact rationals <<n, d>> with   *)
(* d > 0 and gcd(n, d) = 1.  The one irrational quantity of the model,     *)
(* sigma_adj = sigma / sqrt(n_eff / 4), is kept as a surd                  *)
(* [c |-> rational, r |-> positive rational] standing for c * sqrt(r).     *)
(* TLC integers are 32 bit wide, so comparisons are made by the continued  *)
(* fraction expansion (no cross products) and the request values are       *)
(* chosen so that every intermediate numerator stays below 2^31.           *)
(***************************************************************************)
EXTENDS Integers, Sequences, FiniteSets, TLC

\* pc: the handler's position; req: the request being handled; valid: what
\* validate_input returned for it ("none" before the call, "raise" when it
\* raised); steps: the handler steps run for it; resp: the response.
VARIABLES pc, req, valid, resp, steps

vars == <<pc, req, valid, resp, steps>>

(***************************************************************************)
(* Exact rational arithmetic standing for Python float arithmetic.         *)
(***************************************************************************)
Abs(x) == IF x < 0 THEN -x ELSE x

RECURSIVE GCD(_, _)
GCD(a, b) == IF b = 0 THEN a ELSE GCD(b, a % b)

Norm(n, d) ==
    LET g == GCD(Abs(n), Abs(d))
        s == IF d < 0 THEN -1 ELSE 1
    IN  <<(s * n) \div g, (s * d) \div g>>

Q(n, d) == Norm(n, d)

I(n) == <<n, 1>>

RNeg(a) == <<-a[1], a[2]>>

RAdd(a, b) ==
    LET g == GCD(a[2], b[2])
        l == (a[2] \div g) * b[2]
    IN  Norm(a[1] * (l \div a[2]) + b[1] * (l \div b[2]), l)

RSub(a, b) == RAdd(a, RNeg(b))

RMul(a, b) ==
    LET g1 == GCD(Abs(a[1]), b[2])
        g2 == GCD(Abs(b[1]), a[2])
    IN  Norm((a[1] \div g1) * (b[1] \div g2), (a[2] \div g2) * (b[2] \div g1))

\* a / b; the caller guards b # 0 (Python raises ZeroDivisionError there).
RDiv(a, b) == RMul(a, Norm(b[2], b[1]))

RECURSIVE FracLt(_, _, _, _)
\* n1/d1 < n2/d2 for d1, d2 > 0, by integer parts and then by the
\* reciprocals of the fractional parts.
FracLt(n1, d1, n2, d2) ==
    LET q1 == n1 \div d1
        q2 == n2 \div d2
        r1 == n1 % d1
        r2 == n2 % d2
    IN  IF q1 # q2 THEN q1 < q2
        ELSE IF r2 = 0 THEN FALSE
        ELSE IF r1 = 0 THEN TRUE
        ELSE FracLt(d2, r2, d1, r1)

RLt(a, b) == FracLt(a[1], a[2], b[1], b[2])

RLe(a, b) == ~RLt(b, a)

RMax(a, b) == IF RLt(a, b) THEN b ELSE a

RMin(a, b) == IF RLt(b, a) THEN b ELSE a

RAbs(a) == <<Abs(a[1]), a[2]>>

Zero == I(0)

One == I(1)

(***************************************************************************)
(* JSON values.  A value is [t, v]: t is its Python type after json.loads  *)
(* ("num" an int or float, "nan" the float NaN, "bool", "str", "null"),    *)
(* v its number when t = "num".  "absent" marks a key a dict does not      *)
(* hold.  A section (the value under "inputs" or "market") is a dict d     *)
(* over the keys below, or a non-dict: null, or a list / str of which      *)
(* `has` tells the key names it contains (elements, substrings).          *)
(***************************************************************************)
Num(q) == [t |-> "num", v |-> q]

Other(type) == [t |-> type, v |-> Zero]

Absent == Other("absent")

EXPECTED_INPUT_KEYS ==
    << "offense_home", "defense_home", "offense_away", "defense_away",
       "home_field_points", "rest_diff_days", "away_travel_miles",
       "qb_home_delta", "qb_away_delta", "key_injuries_home", "key_injuries_away",
       "wind_mph", "pass_rate_home", "pass_rate_away" >>

EXPECTED_MARKET_KEYS == << "spread", "odds_home", "odds_away" >>

Range(seq) == {seq[i] : i \in 1..Len(seq)}

\* A request may carry one field the service does not know.
ExtraKey == "note"

InputKeys == Range(EXPECTED_INPUT_KEYS) \cup {ExtraKey}

MarketKeys == Range(EXPECTED_MARKET_KEYS) \cup {ExtraKey}

Dict(d) == [t |-> "dict", d |-> d, has |-> {}]

NonDict(type, keys, has) == [t |-> type, d |-> [k \in keys |-> Absent], has |-> has]

\* Python's `k in section`: "raise" is the TypeError of `in` on None.
Contains(section, k) ==
    CASE section.t = "dict" -> IF section.d[k].t # "absent" THEN "True" ELSE "False"
      [] section.t \in {"list", "str"} -> IF k \in section.has THEN "True" ELSE "False"
      [] OTHER -> "raise"

\* Python's `section[k]`, reached only when `k in section` was true: a list
\* or str indexed by a str raises TypeError.
Subscript(section, k) == IF section.t = "dict" THEN section.d[k] ELSE Other("raise")

_is_number(value) == value.t \in {"num", "nan"}

\* NaN compares false with everything, so it fails the range test.
_validate_numeric_field(value, min_val, max_val) ==
    IF ~_is_number(value) THEN FALSE
    ELSE IF value.t = "nan" THEN FALSE
    ELSE RLe(I(min_val), value.v) /\ RLe(value.v, I(max_val))

InputMin == -9999

InputMax == 9999

MarketMin == -20000

MarketMax == 20000

RECURSIVE FieldLoop(_, _, _, _, _, _)
\* One `for k in keys` loop of validate_input from index i on, with the
\* running flag ok: "True" / "False", or "raise" when the loop raises.
FieldLoop(section, keys, i, ok, min_val, max_val) ==
    IF i > Len(keys) THEN (IF ok THEN "True" ELSE "False")
    ELSE LET k == keys[i]
             c == Contains(section, k)
         IN  IF c = "raise" THEN "raise"
             ELSE IF c = "False"
                  THEN FieldLoop(section, keys, i + 1, FALSE, min_val, max_val)
             ELSE LET x == Subscript(section, k)
                  IN  IF x.t = "raise" THEN "raise"
                      ELSE FieldLoop(section, keys, i + 1,
                                     ok /\ _validate_numeric_field(x, min_val, max_val),
                                     min_val, max_val)

\* `name in data` for the request body data.
TopContains(data, name) ==
    CASE data.t \in {"dict", "list", "str"} -> IF name \in data.top THEN "True" ELSE "False"
      [] OTHER -> "raise"

validate_input(data) ==
    LET ci == TopContains(data, "inputs")
        cm == TopContains(data, "market")
    IN  IF ci = "raise" THEN "raise"
        ELSE IF ci = "False" THEN "False"
        ELSE IF cm = "raise" THEN "raise"
        ELSE IF cm = "False" THEN "False"
        \* data.get is an AttributeError on a list or a str
        ELSE IF data.t # "dict" THEN "raise"
        ELSE LET a == FieldLoop(data.inputs, EXPECTED_INPUT_KEYS, 1, TRUE,
                                InputMin, InputMax)
             IN  IF a = "raise" THEN "raise"
                 ELSE FieldLoop(data.market, EXPECTED_MARKET_KEYS, 1, a = "True",
                                MarketMin, MarketMax)

(***************************************************************************)
(* The deterministic model, run_cfb_model_v2.                              *)
(***************************************************************************)
\* inputs[k] / market[k] of a validated section: a number.
V(section, k) == section.d[k].v

b_matchup == I(7)

b_hfa == Q(12, 10)

b_rest == Q(15, 100)

b_travel == Q(-10, 100)

b_qb == I(3)

b_injury == Q(35, 100)

b_weather == Q(3, 100)

sigma_base == I(14)

lam == Q(834421, 1000000)

\* Zero odds read as even money (+100) instead of the degenerate 1.0.
american_to_decimal_zero_even(odds) ==
    IF RLt(Zero, odds) THEN RAdd(One, RDiv(odds, I(100)))
    ELSE IF RLt(odds, Zero) THEN RAdd(One, RDiv(I(100), RAbs(odds)))
    ELSE I(2)

_american_to_decimal(odds) ==
    IF RLt(Zero, odds) THEN RAdd(One, RDiv(odds, I(100)))
    ELSE IF RLt(odds, Zero) THEN RAdd(One, RDiv(I(100), RAbs(odds)))
    ELSE One

\* _phi on a grid of PhiStep points per unit: the normal CDF at the largest
\* grid point k/PhiStep <= |z|, rounded down to a multiple of 1/PhiUnit, for
\* |z| up to 4; above, 0.9999; and from PhiSaturation/PhiStep = 8.5 on the
\* float expression 0.5 * (1 + erf(z / sqrt 2)) is exactly 1.0 (erf rounds to
\* 1.0), which is what the code computes there.
PhiGrid ==
    << 5000, 5987, 6914, 7733, 8413, 8943, 9331, 9599, 9772,
       9877, 9937, 9970, 9986, 9994, 9997, 9999, 9999 >>

PhiStep == 4

PhiSaturation == 34

PhiUnit == 10000

\* c * sqrt(r) >= k / PhiStep for c >= 0.  With r >= 1 and c >= k / PhiStep no
\* square is needed (and none is taken: c may be large).
SurdGe(c, r, k) ==
    IF RLe(One, r) /\ RLe(Q(k, PhiStep), c) THEN TRUE
    ELSE RLe(RDiv(Q(k * k, PhiStep * PhiStep), r), RMul(c, c))

RECURSIVE PhiIndex(_, _, _)
\* The largest k in 0..Len(PhiGrid)-1 with |z| >= k/PhiStep, searched downwards.
PhiIndex(c, r, k) == IF k = 0 \/ SurdGe(c, r, k) THEN k ELSE PhiIndex(c, r, k - 1)

PhiAbs(c, r) ==
    IF SurdGe(c, r, PhiSaturation) THEN One
    ELSE Q(PhiGrid[PhiIndex(c, r, Len(PhiGrid) - 1) + 1], PhiUnit)

\* _phi(z) for z = z.c * sqrt(z.r); Phi(-z) = 1 - Phi(z).
_phi(z) ==
    IF z.c[1] >= 0 THEN PhiAbs(z.c, z.r) ELSE RSub(One, PhiAbs(RAbs(z.c), z.r))

matchup_gap(inputs) ==
    RSub(RSub(V(inputs, "offense_home"), V(inputs, "defense_away")),
         RSub(V(inputs, "offense_away"), V(inputs, "defense_home")))

\* The expected margin with the request's home_field_points in place of b_hfa.
em_reads_home_field_points(inputs) ==
    RAdd(RMul(b_matchup, matchup_gap(inputs)),
    RAdd(V(inputs, "home_field_points"),
    RAdd(RMul(b_rest, V(inputs, "rest_diff_days")),
    RAdd(RMul(b_travel, RDiv(V(inputs, "away_travel_miles"), I(500))),
    RAdd(RMul(b_qb, RSub(V(inputs, "qb_home_delta"), V(inputs, "qb_away_delta"))),
    RAdd(RMul(b_injury, RAdd(RNeg(V(inputs, "key_injuries_home")),
                             V(inputs, "key_injuries_away"))),
         RMul(b_weather, RMul(V(inputs, "wind_mph"),
                              RSub(V(inputs, "pass_rate_home"),
                                   V(inputs, "pass_rate_away"))))))))))

\* Step 2: expected margin E[m]
em(inputs) ==
    RAdd(RMul(b_matchup, matchup_gap(inputs)),
    RAdd(b_hfa,
    RAdd(RMul(b_rest, V(inputs, "rest_diff_days")),
    RAdd(RMul(b_travel, RDiv(V(inputs, "away_travel_miles"), I(500))),
    RAdd(RMul(b_qb, RSub(V(inputs, "qb_home_delta"), V(inputs, "qb_away_delta"))),
    RAdd(RMul(b_injury, RAdd(RNeg(V(inputs, "key_injuries_home")),
                             V(inputs, "key_injuries_away"))),
         RMul(b_weather, RMul(V(inputs, "wind_mph"),
                              RSub(V(inputs, "pass_rate_home"),
                                   V(inputs, "pass_rate_away"))))))))))

\* Step 3: variance adjustment (the raw sigma)
sigma(inputs) ==
    LET wind == RMax(Zero, RSub(V(inputs, "wind_mph"), I(10)))
        inj_total == RAdd(V(inputs, "key_injuries_home"), V(inputs, "key_injuries_away"))
    IN  RMul(sigma_base,
             RMul(RAdd(One, RMul(Q(1, 100), wind)),
                  RAdd(One, RMul(Q(3, 100), inj_total))))

\* max in place of min: the cap of 12 becomes the value.
n_eff_max == RMax(I(12), RDiv(One, RSub(One, lam)))

\* Step 4: recency weighting
n_eff == RMin(I(12), RDiv(One, RSub(One, lam)))

\* sigma_adj = sigma / sqrt(n_eff / 4) = sigma * sqrt(4 / n_eff)
sigma_adj(inputs) == [c |-> sigma(inputs), r |-> RDiv(I(4), n_eff)]

\* x / sigma_adj, for sigma_adj # 0
OverSigmaAdj(x, sa) == [c |-> RDiv(x, sa.c), r |-> RDiv(One, sa.r)]

\* sigma_adj ** 2
Variance(sa) == RMul(RMul(sa.c, sa.c), sa.r)

\* Full Kelly: the quarter factor forgotten.
kelly_full(p, dec) ==
    LET b == RSub(dec, One)
        q == RSub(One, p)
        f_star == IF RLt(Zero, b) THEN RDiv(RSub(RMul(b, p), q), b) ELSE Zero
    IN  RMax(Zero, f_star)

\* The clamp max(0.0, ...) forgotten.
kelly_unclamped(p, dec) ==
    LET b == RSub(dec, One)
        q == RSub(One, p)
        f_star == IF RLt(Zero, b) THEN RDiv(RSub(RMul(b, p), q), b) ELSE Zero
    IN  RMul(Q(25, 100), f_star)

_kelly(p, dec) ==
    LET b == RSub(dec, One)
        q == RSub(One, p)
        f_star == IF RLt(Zero, b) THEN RDiv(RSub(RMul(b, p), q), b) ELSE Zero
    IN  RMax(Zero, RMul(Q(25, 100), f_star))

EvThreshold == Q(3, 100)

Rec(side, ev, fraction) == [side |-> side, ev |-> ev, fraction |-> fraction]

\* Ties go to away: ev_home > ev_away in place of ev_home >= ev_away.
RecommendationTieAway(ev_home, ev_away, k_home, k_away) ==
    IF RLe(EvThreshold, ev_home) \/ RLe(EvThreshold, ev_away)
    THEN IF RLt(ev_away, ev_home) THEN Rec("home", ev_home, k_home)
         ELSE Rec("away", ev_away, k_away)
    ELSE Rec("no_bet", Zero, Zero)

Recommendation(ev_home, ev_away, k_home, k_away) ==
    IF RLe(EvThreshold, ev_home) \/ RLe(EvThreshold, ev_away)
    THEN IF RLe(ev_away, ev_home) THEN Rec("home", ev_home, k_home)
         ELSE Rec("away", ev_away, k_away)
    ELSE Rec("no_bet", Zero, Zero)

Reliability(inputs, market) ==
    LET d == RAbs(RSub(em(inputs), V(market, "spread")))
        raw == RMul(Q(65, 100),
               RMul(RSub(One, RMin(Q(35, 100), RDiv(sigma(inputs), I(20)))),
                    RAdd(Q(85, 100), RMul(Q(15, 100), RMin(One, RDiv(d, I(7)))))))
    IN  RMax(Zero, RMin(Q(95, 100), raw))

\* The division by sigma_adj of step 5 raises ZeroDivisionError.
ModelRaises(inputs, market) == sigma(inputs) = Zero

\* The returned dict, without the confidence intervals and edge_confidence
\* (irrational multiples of sigma_adj that no later step reads).
ModelOutput(inputs, market) ==
    LET sa == sigma_adj(inputs)
        z_cover == OverSigmaAdj(RSub(em(inputs), V(market, "spread")), sa)
        p_home_cover == _phi(z_cover)
        p_home_win == _phi(OverSigmaAdj(em(inputs), sa))
        p_away_win == RSub(One, p_home_win)
        dec_home == _american_to_decimal(V(market, "odds_home"))
        dec_away == _american_to_decimal(V(market, "odds_away"))
        ev_home == RSub(RMul(p_home_win, RSub(dec_home, One)), RSub(One, p_home_win))
        ev_away == RSub(RMul(p_away_win, RSub(dec_away, One)), RSub(One, p_away_win))
    IN  [ spread_pred |-> em(inputs),
          win_prob_home |-> p_home_win,
          win_prob_away |-> p_away_win,
          prob_home_cover |-> p_home_cover,
          variance |-> Variance(sa),
          r2_reliability |-> Reliability(inputs, market),
          recommendation |-> Recommendation(ev_home, ev_away,
                                            _kelly(p_home_win, dec_home),
                                            _kelly(p_away_win, dec_away)) ]

run_cfb_model_v2(inputs, market) ==
    IF ModelRaises(inputs, market) THEN [raised |-> TRUE, out |-> << >>]
    ELSE [raised |-> FALSE, out |-> ModelOutput(inputs, market)]

(***************************************************************************)
(* The requests a client can POST to /cfb/run_model.                       *)
(***************************************************************************)
\* Largest quarterback delta a request of the model carries.
MaxQbDelta == 1

\* The payload of the specification's scenario.
ScenarioInputs ==
    [k \in InputKeys |->
        CASE k = "offense_home" -> Num(I(35))
          [] k = "defense_home" -> Num(I(20))
          [] k = "offense_away" -> Num(I(28))
          [] k = "defense_away" -> Num(I(24))
          [] k = "home_field_points" -> Num(Q(5, 2))
          [] k = "rest_diff_days" -> Num(I(0))
          [] k = "away_travel_miles" -> Num(I(300))
          [] k = "qb_home_delta" -> Num(I(0))
          [] k = "qb_away_delta" -> Num(I(0))
          [] k = "key_injuries_home" -> Num(I(0))
          [] k = "key_injuries_away" -> Num(I(0))
          [] k = "wind_mph" -> Num(I(5))
          [] k = "pass_rate_home" -> Num(Q(55, 100))
          [] k = "pass_rate_away" -> Num(Q(55, 100))
          [] OTHER -> Absent]

ScenarioMarket ==
    [k \in MarketKeys |->
        CASE k = "spread" -> Num(I(-3))
          [] k = "odds_home" -> Num(I(-150))
          [] k = "odds_away" -> Num(I(130))
          [] OTHER -> Absent]

\* Numeric payloads: every field a number, most of them inside the
\* validator's ranges.
NumericInputs ==
    { [ScenarioInputs EXCEPT !["offense_home"] = Num(I(oh)),
                             !["home_field_points"] = Num(hfp),
                             !["rest_diff_days"] = Num(I(rest)),
                             !["away_travel_miles"] = Num(I(miles)),
                             !["qb_home_delta"] = Num(I(qb)),
                             !["key_injuries_home"] = Num(inj),
                             !["wind_mph"] = Num(I(wind))] :
        oh \in {35, 32, 28}, hfp \in {Q(5, 2), Zero}, rest \in {0, -8},
        miles \in {300, 0}, qb \in 0..MaxQbDelta,
        inj \in {Zero, I(50), I(-50), Q(-100, 3)}, wind \in {5, 60} }

NumericMarkets ==
    { [ScenarioMarket EXCEPT !["odds_home"] = Num(I(oh)), !["odds_away"] = Num(I(oa))] :
        oh \in {-150, 0, 130}, oa \in {130, -150, 0} }

\* What a field may hold instead of a number in range.
BadValues(min_val, max_val) ==
    { Absent, Other("bool"), Other("str"), Other("null"), Other("nan"),
      Num(I(max_val + 1)), Num(I(min_val - 1)) }

\* The scenario with one field replaced: a bad value for any key, a value on
\* the edge of the range, an unknown field added.
EditedInputs ==
    { [ScenarioInputs EXCEPT ![k] = b] :
        k \in Range(EXPECTED_INPUT_KEYS), b \in BadValues(InputMin, InputMax) }
    \cup { [ScenarioInputs EXCEPT !["rest_diff_days"] = Num(I(e))] : e \in {InputMin, InputMax} }
    \cup { [ScenarioInputs EXCEPT ![ExtraKey] = Other("str")] }

EditedMarkets ==
    { [ScenarioMarket EXCEPT ![k] = b] :
        k \in Range(EXPECTED_MARKET_KEYS), b \in BadValues(MarketMin, MarketMax) }
    \cup { [ScenarioMarket EXCEPT ![k] = Num(I(e))] :
             k \in Range(EXPECTED_MARKET_KEYS), e \in {MarketMin, MarketMax} }
    \cup { [ScenarioMarket EXCEPT ![ExtraKey] = Other("str")] }

\* Sections that are not JSON objects.
NonDictInputs ==
    { NonDict("null", InputKeys, {}), NonDict("list", InputKeys, {}),
      NonDict("list", InputKeys, {"wind_mph"}), NonDict("str", InputKeys, {"offense_home"}) }

NonDictMarkets ==
    { NonDict("null", MarketKeys, {}), NonDict("list", MarketKeys, {}),
      NonDict("str", MarketKeys, {"spread"}) }

Body(type, top, inputs, market) ==
    [t |-> type, top |-> top, inputs |-> inputs, market |-> market]

Both == {"inputs", "market"}

EmptyDict == Body("dict", {}, Dict(ScenarioInputs), Dict(ScenarioMarket))

\* A body that is null, 0, false, "", [], {} or not parseable: get_json(silent=True)
\* or the `or {}` turns it into {}.
FalsyBody == Body("falsy", {}, Dict(ScenarioInputs), Dict(ScenarioMarket))

Bodies ==
    { Body("dict", Both, Dict(i), Dict(m)) : i \in NumericInputs, m \in NumericMarkets }
    \cup { Body("dict", Both, Dict(i), Dict(ScenarioMarket)) : i \in EditedInputs }
    \cup { Body("dict", Both, Dict(ScenarioInputs), Dict(m)) : m \in EditedMarkets }
    \cup { Body("dict", Both, i, Dict(ScenarioMarket)) : i \in NonDictInputs }
    \cup { Body("dict", Both, Dict(ScenarioInputs), m) : m \in NonDictMarkets }
    \cup { Body("dict", top, Dict(ScenarioInputs), Dict(ScenarioMarket)) :
             top \in {{"inputs"}, {"market"}} }
    \cup { Body(type, top, Dict(ScenarioInputs), Dict(ScenarioMarket)) :
             type \in {"list", "str"}, top \in {Both, {"inputs"}} }
    \cup { Body("scalar", {}, Dict(ScenarioInputs), Dict(ScenarioMarket)), FalsyBody }

Requests ==
    { [is_json |-> TRUE, body |-> b] : b \in Bodies }
    \cup { [is_json |-> FALSE, body |-> b] :
             b \in {FalsyBody, Body("dict", Both, Dict(ScenarioInputs), Dict(ScenarioMarket))} }

(***************************************************************************)
(* The handler cfb_run_model, one action per step.                         *)
(***************************************************************************)
NoRequest == [is_json |-> FALSE, body |-> FalsyBody]

\* A response: kind "ok" (jsonify of status and model_output), "error"
\* (_err: a JSON body with the reason under "error"), "unhandled" (an
\* exception left the handler: the framework's own 500 page), "none".
Response(kind, code, reason, out) ==
    [kind |-> kind, code |-> code, reason |-> reason, out |-> out]

NoResponse == Response("none", 0, "", << >>)

_err(msg, code) == Response("error", code, msg, << >>)

Unhandled == Response("unhandled", 500, "", << >>)

\* payload = request.get_json(silent=True) or {}
Payload(r) == IF r.body.t = "falsy" THEN EmptyDict ELSE r.body

Init ==
    /\ pc = "idle"
    /\ req = NoRequest
    /\ valid = "none"
    /\ resp = NoResponse
    /\ steps = << >>

Post(r) ==
    /\ pc = "idle"
    /\ pc' = "is_json"
    /\ req' = r
    /\ valid' = "none"
    /\ resp' = NoResponse
    /\ steps' = << >>

\* if not request.is_json: return _err(...)
CheckJson ==
    /\ pc = "is_json"
    /\ steps' = Append(steps, "json")
    /\ IF req.is_json
       THEN pc' = "sections" /\ resp' = resp
       ELSE pc' = "done" /\ resp' = _err("Content-Type must be application/json", 400)
    /\ UNCHANGED <<req, valid>>

\* if "inputs" not in payload or "market" not in payload: return _err(...)
CheckSections ==
    /\ pc = "sections"
    /\ steps' = Append(steps, "sections")
    /\ LET ci == TopContains(Payload(req), "inputs")
           cm == IF ci = "True" THEN TopContains(Payload(req), "market") ELSE ci
       IN  IF ci = "raise" \/ cm = "raise"
           THEN pc' = "done" /\ resp' = Unhandled
           ELSE IF ci = "False" \/ cm = "False"
           THEN /\ pc' = "done"
                /\ resp' = _err("JSON must include 'inputs' and 'market' sections", 400)
           ELSE pc' = "validate" /\ resp' = resp
    /\ UNCHANGED <<req, valid>>

\* if not validate_input(payload): return _err(...); the call is outside the try
CheckValid ==
    /\ pc = "validate"
    /\ steps' = Append(steps, "validate")
    /\ LET ok == validate_input(Payload(req))
       IN  IF ok = "raise"
           THEN pc' = "done" /\ resp' = Unhandled
           ELSE IF ok = "False"
           THEN /\ pc' = "done"
                /\ resp' = _err("validation failed; use /cfb/build_inputs to construct valid payload", 400)
           ELSE pc' = "model" /\ resp' = resp
    /\ valid' = validate_input(Payload(req))
    /\ UNCHANGED req

\* try: result = run_cfb_model_v2(...) ... except Exception: return _err(..., 500)
RunModel ==
    /\ pc = "model"
    /\ steps' = Append(steps, "model")
    /\ LET result == run_cfb_model_v2(Payload(req).inputs, Payload(req).market)
       IN  IF result.raised
           THEN resp' = _err("model execution failed", 500)
           ELSE resp' = Response("ok", 200, "", <<result.out>>)
    /\ pc' = "done"
    /\ UNCHANGED <<req, valid>>

\* The response is sent; the service holds no state across requests.
Respond ==
    /\ pc = "done"
    /\ pc' = "idle"
    /\ req' = NoRequest
    /\ valid' = "none"
    /\ resp' = NoResponse
    /\ steps' = << >>

Next ==
    \/ \E r \in Requests : Post(r)
    \/ CheckJson
    \/ CheckSections
    \/ CheckValid
    \/ RunModel
    \/ Respond

Spec == Init /\ [][Next]_vars

(***************************************************************************)
(* Properties.                                                             *)
(***************************************************************************)
Inputs == Payload(req).inputs

Market == Payload(req).market

Answered == pc = "done"

AnsweredOk == pc = "done" /\ resp.kind = "ok"

\* The model_output of an "ok" response.
Out == resp.out[1]

IsPrefix(s, t) == Len(s) <= Len(t) /\ \A i \in 1..Len(s) : s[i] = t[i]

\* EV per unit stake of a side: p_win * (decimal_odds - 1) - (1 - p_win).
EVof(p, dec) == RSub(RMul(p, RSub(dec, One)), RSub(One, p))

DecHome == _american_to_decimal(V(Market, "odds_home"))

DecAway == _american_to_decimal(V(Market, "odds_away"))

EvHome == EVof(Out.win_prob_home, DecHome)

EvAway == EVof(Out.win_prob_away, DecAway)

\* A field is present, a non-boolean number, and inside [lo, hi].
FieldValid(x, lo, hi) == x.t = "num" /\ RLe(I(lo), x.v) /\ RLe(x.v, I(hi))

\* Both sections present, all 14 inputs fields valid in [-9999, 9999] and all
\* 3 market fields valid in [-20000, 20000].
WellFormed(data) ==
    /\ data.t = "dict"
    /\ Both \subseteq data.top
    /\ data.inputs.t = "dict"
    /\ data.market.t = "dict"
    /\ \A k \in Range(EXPECTED_INPUT_KEYS) : FieldValid(data.inputs.d[k], -9999, 9999)
    /\ \A k \in Range(EXPECTED_MARKET_KEYS) : FieldValid(data.market.d[k], -20000, 20000)

\* C1: on a JSON object, validate_input returns True exactly when both
\* sections are present and every required field is a non-boolean number in
\* its range, and returns False in every other case.
C1_ValidateInputDecides ==
    (valid # "none" /\ Payload(req).t = "dict")
        => valid = (IF WellFormed(Payload(req)) THEN "True" ELSE "False")

\* The request passed the JSON check, the section check and validate_input.
PassedAllChecks ==
    /\ req.is_json
    /\ TopContains(Payload(req), "inputs") = "True"
    /\ TopContains(Payload(req), "market") = "True"
    /\ valid = "True"

\* C2: the steps run in the order JSON check, section check, validate_input,
\* model; an "ok" response with a model_output only for a request that passed
\* all three checks; every other request ends in an error response with a
\* reason and no model_output, and the model is not invoked for it.
C2_RejectionsCarryReason ==
    Answered =>
        /\ IsPrefix(steps, << "json", "sections", "validate", "model" >>)
        /\ (resp.kind = "ok" => PassedAllChecks /\ Len(resp.out) = 1)
        /\ (~PassedAllChecks =>
                /\ resp.kind = "error"
                /\ resp.reason # ""
                /\ resp.out = << >>
                /\ "model" \notin Range(steps))

\* C3: for every payload validate_input accepted, the raw sigma (and so the
\* adjusted sigma) is strictly positive.
C3_SigmaPositive ==
    valid = "True" => RLt(Zero, sigma(Inputs)) /\ RLt(Zero, sigma_adj(Inputs).c)

\* C4: a payload validate_input accepted is always answered "ok" (the model
\* never fails on it), with a strictly positive variance.
C4_AcceptedAnsweredOk ==
    (Answered /\ valid = "True") => resp.kind = "ok" /\ RLt(Zero, Out.variance)

\* C5: the recommendation is no_bet with EV 0 and fraction 0 exactly when both
\* EVs are below 0.03; otherwise home when ev_home >= ev_away and away when
\* ev_away > ev_home, with the EV and quarter-Kelly fraction of that side.
C5_RecommendationPolicy ==
    AnsweredOk =>
        LET rec == Out.recommendation
            low == RLt(EvHome, Q(3, 100)) /\ RLt(EvAway, Q(3, 100))
        IN  /\ (rec.side = "no_bet") <=> low
            /\ low => rec.ev = Zero /\ rec.fraction = Zero
            /\ (~low /\ RLe(EvAway, EvHome)) =>
                   /\ rec.side = "home"
                   /\ rec.ev = EvHome
                   /\ rec.fraction = _kelly(Out.win_prob_home, DecHome)
            /\ (~low /\ RLt(EvHome, EvAway)) =>
                   /\ rec.side = "away"
                   /\ rec.ev = EvAway
                   /\ rec.fraction = _kelly(Out.win_prob_away, DecAway)

C5_TieGoesHome ==
    /\ AnsweredOk
    /\ EvHome = EvAway
    /\ RLe(Q(3, 100), EvHome)
    /\ Out.recommendation.side = "home"

\* The quarter-Kelly fraction as the specification states it: 0 when the
\* numerator b*p - (1-p) is not positive or b = dec - 1 is not positive,
\* else 0.25 * (b*p - (1-p)) / b.
KellyAsStated(p, dec) ==
    LET b == RSub(dec, One)
        num == RSub(RMul(b, p), RSub(One, p))
    IN  IF RLe(num, Zero) \/ RLe(b, Zero) THEN Zero
        ELSE RDiv(RMul(Q(1, 4), num), b)

\* C6: the recommended fraction is never negative, and each side's
\* quarter-Kelly fraction is 0 when its numerator or b is not positive and
\* 0.25 * (b*p - (1-p)) / b otherwise.
C6_FractionNeverNegative ==
    AnsweredOk =>
        /\ RLe(Zero, Out.recommendation.fraction)
        /\ _kelly(Out.win_prob_home, DecHome) = KellyAsStated(Out.win_prob_home, DecHome)
        /\ _kelly(Out.win_prob_away, DecAway) = KellyAsStated(Out.win_prob_away, DecAway)
        /\ Out.recommendation.side = "home" =>
               Out.recommendation.fraction = KellyAsStated(Out.win_prob_home, DecHome)
        /\ Out.recommendation.side = "away" =>
               Out.recommendation.fraction = KellyAsStated(Out.win_prob_away, DecAway)

\* Home is recommended with a positive stake while away's Kelly numerator is
\* negative (its fraction is clamped to 0).
C6_OneSideClamped ==
    /\ AnsweredOk
    /\ Out.recommendation.side = "home"
    /\ RLt(Zero, Out.recommendation.fraction)
    /\ RLt(EvAway, Zero)
    /\ _kelly(Out.win_prob_away, DecAway) = Zero

\* C7: with odds_home = 0 the home decimal odds are 1, ev_home is
\* -(1 - p_home_win) <= 0, home is never recommended, the result is no_bet
\* whenever ev_away <= 0, and away only when ev_away >= 0.03.
C7_ZeroOddsNeverHome ==
    (AnsweredOk /\ V(Market, "odds_home") = Zero) =>
        /\ DecHome = One
        /\ EvHome = RNeg(RSub(One, Out.win_prob_home))
        /\ RLe(EvHome, Zero)
        /\ Out.recommendation.side # "home"
        /\ RLe(EvAway, Zero) => Out.recommendation.side = "no_bet"
        /\ Out.recommendation.side = "away" => RLe(Q(3, 100), EvAway)

C7_ZeroOddsAway ==
    /\ AnsweredOk
    /\ V(Market, "odds_home") = Zero
    /\ Out.recommendation.side = "away"

\* The scenario's payload: the fields the scenario fixes (home_field_points
\* is free, the two pass rates are equal).
IsScenario ==
    /\ valid = "True"
    /\ V(Inputs, "offense_home") = I(35)
    /\ V(Inputs, "defense_home") = I(20)
    /\ V(Inputs, "offense_away") = I(28)
    /\ V(Inputs, "defense_away") = I(24)
    /\ V(Inputs, "rest_diff_days") = Zero
    /\ V(Inputs, "away_travel_miles") = I(300)
    /\ V(Inputs, "qb_home_delta") = Zero
    /\ V(Inputs, "qb_away_delta") = Zero
    /\ V(Inputs, "key_injuries_home") = Zero
    /\ V(Inputs, "key_injuries_away") = Zero
    /\ V(Inputs, "wind_mph") = I(5)
    /\ V(Inputs, "pass_rate_home") = V(Inputs, "pass_rate_away")
    /\ V(Market, "spread") = I(-3)
    /\ V(Market, "odds_home") = I(-150)
    /\ V(Market, "odds_away") = I(130)

\* C8 as stated: on the scenario the margin is 22.14, the raw sigma 14,
\* n_eff = 12, the variance 196/3 and the side home.
C8_ScenarioAsStated ==
    (Answered /\ IsScenario) =>
        /\ resp.kind = "ok"
        /\ Out.spread_pred = Q(2214, 100)
        /\ sigma(Inputs) = I(14)
        /\ n_eff = I(12)
        /\ Out.variance = Q(196, 3)
        /\ Out.recommendation.side = "home"

\* C8 amended: on the scenario the margin is 22.14, the raw sigma 14,
\* n_eff = 1/(1 - 0.834421) = 1000000/165579 (about 6.039, below the cap of
\* 12), the variance 196/(n_eff/4) = 129.813936 and the side home.
C8_ScenarioAmended ==
    (Answered /\ IsScenario) =>
        /\ resp.kind = "ok"
        /\ Out.spread_pred = Q(2214, 100)
        /\ sigma(Inputs) = I(14)
        /\ n_eff = Q(1000000, 165579)
        /\ Out.variance = RDiv(I(196), RDiv(n_eff, I(4)))
        /\ Out.variance = Q(129813936, 1000000)
        /\ Out.recommendation.side = "home"

C8_ScenarioAnswered == Answered /\ IsScenario /\ resp.kind = "ok"

\* The net odds b = decimal_odds - 1 of the recommended side.
NetOddsOfSide == RSub(IF Out.recommendation.side = "home" THEN DecHome ELSE DecAway, One)

\* C9: a recommended side (not no_bet) has a reported EV of at least 0.03,
\* strictly positive net odds, and a fraction in (0, 0.25].
C9_BetHasPositiveStake ==
    (AnsweredOk /\ Out.recommendation.side # "no_bet") =>
        /\ RLe(Q(3, 100), Out.recommendation.ev)
        /\ RLt(Zero, NetOddsOfSide)
        /\ RLt(Zero, Out.recommendation.fraction)
        /\ RLe(Out.recommendation.fraction, Q(25, 100))

C9_AwayBet ==
    /\ AnsweredOk
    /\ Out.recommendation.side = "away"
    /\ RLt(Zero, Out.recommendation.fraction)

\* The inputs with home_field_points replaced.
WithHomeField(inputs, x) == Dict([inputs.d EXCEPT !["home_field_points"] = x])

\* C10: home_field_points has no influence: the accepted payload with any
\* other home_field_points value gets the same answer from the model, although
\* without the field validate_input rejects the payload.
C10_HomeFieldIgnored ==
    (Answered /\ valid = "True") =>
        /\ \A x \in {Zero, Q(5, 2), I(9999)} :
              LET other == run_cfb_model_v2(WithHomeField(Inputs, Num(x)), Market)
              IN  /\ other.raised <=> resp.kind # "ok"
                  /\ ~other.raised => other.out = Out
        /\ validate_input([Payload(req) EXCEPT !.inputs = WithHomeField(Inputs, Absent)])
               = "False"

C10_NoHomeFieldPoints ==
    /\ AnsweredOk
    /\ V(Inputs, "home_field_points") = Zero

====
